---- MODULE Spec2Model ----
(***************************************************************************)
(* Expression AST of lib/AST/Expr.cpp: the arena of expression nodes, the  *)
(* overload-collapse constructors (createWithCopy), the filtered copy of   *)
(* an overload set, the variable-arity factories and the structural        *)
(* queries (getSemanticsProvidingExpr, isImplicit, getCalledValue).        *)
(*                                                                         *)
(* A node is a record of the arena sequence `nodes`; its id is its index.  *)
(* Pointers are ids, 0 is the null pointer.  Candidate lists are ArrayRefs:*)
(* a reference to storage, either the caller's own (CallerBuf) or a copy   *)
(* in the arena (an index of `arrays`).                                    *)
(***************************************************************************)
EXTENDS Integers, Sequences, FiniteSets, TLC

VARIABLES nodes, arrays, callerDecls, calls, query, aborted

vars == <<nodes, arrays, callerDecls, calls, query, aborted>>

\* ---------------------------------------------------------------- bounds
\* Longest candidate list a caller passes to a collapse constructor.
MaxDecls == 2
\* Number of constructor calls made in one run of the collapse model.
MaxCalls == 2
\* Number of wrapper and call nodes built in one run of the query model.
MaxBuilt == 3
\* Longest element / bounds / parameter list of a variable-arity factory.
MaxElems == 2
\* Number of factory calls in one run of the variable-arity model.
MaxCreates == 2
\* Most elements of a tuple, and number of tuples built in one run of the
\* source-range model.
MaxTupleElems == 3
MaxTuples == 1

\* ------------------------------------------------------- handles and types
NoNode == 0
NoDecl == 0
CallerBuf == 0
NullType == "null"
UnstructuredDependentType == "UnstructuredDependent"
MetaTypeType == "MetaType"
Uninit == "uninit"
\* SourceLoc: 0 is the invalid location, anything else is valid.
InvalidLoc == 0
ValidLoc == 1
Locs == {InvalidLoc, ValidLoc}
isValid(Loc) == Loc # InvalidLoc

\* The declarations the collaborator hands in.  This file asks a declaration
\* only for its kind, isInstanceMember(), getTypeOfReference() and, for a
\* subscript declaration, getElementType().
DeclTable ==
  << [kind |-> "Func",      instance |-> TRUE,  ty |-> "MethodTy",   elem |-> NullType],
     [kind |-> "Var",       instance |-> TRUE,  ty |-> "FieldTy",    elem |-> NullType],
     [kind |-> "Func",      instance |-> FALSE, ty |-> "StaticFnTy", elem |-> NullType],
     [kind |-> "TypeAlias", instance |-> FALSE, ty |-> MetaTypeType, elem |-> NullType],
     [kind |-> "Var",       instance |-> FALSE, ty |-> "StructTy",   elem |-> NullType],
     [kind |-> "Subscript", instance |-> TRUE,  ty |-> "SubFnTy1",   elem |-> "ElemTy1"],
     [kind |-> "Subscript", instance |-> TRUE,  ty |-> "SubFnTy2",   elem |-> "ElemTy2"] >>

DeclIds == 1..Len(DeclTable)
\* Candidates of a name or member lookup, and of a subscript lookup.
ValueCandidates == {d \in DeclIds : DeclTable[d].kind = "Func" \/ DeclTable[d].instance}
                     \ {d \in DeclIds : DeclTable[d].kind = "Subscript"}
SubscriptCandidates == {d \in DeclIds : DeclTable[d].kind = "Subscript"}
TypeAliasDecl == CHOOSE d \in DeclIds : DeclTable[d].kind = "TypeAlias"
GlobalVarDecl == CHOOSE d \in DeclIds : DeclTable[d].kind = "Var" /\ ~DeclTable[d].instance

getTypeOfReference(d) == DeclTable[d].ty
getElementType(d) == DeclTable[d].elem
isInstanceMember(d) == DeclTable[d].instance
isaFuncDecl(d) == DeclTable[d].kind = "Func"
isaVarDecl(d) == DeclTable[d].kind = "Var"
isMetaTypeType(ty) == ty = MetaTypeType

\* Lists without repetition over S of length at most n (a lookup result
\* names each declaration once).
Range(l) == {l[i] : i \in 1..Len(l)}
RECURSIVE ListsUpTo(_, _)
ListsUpTo(S, n) ==
  IF n = 0 THEN {<<>>}
  ELSE LET shorter == ListsUpTo(S, n - 1)
           longest == {l \in shorter : Len(l) = n - 1}
       IN shorter \cup UNION {{Append(l, d) : d \in S \ Range(l)} : l \in longest}

\* ------------------------------------------------------------- the arena
\* Every field a node of this file can carry; a field a kind does not have
\* stays at its null value.
BlankNode ==
  [kind |-> "Error", Ty |-> NullType, D |-> NoDecl, Decls |-> CallerBuf,
   Loc |-> InvalidLoc, DotLoc |-> InvalidLoc, Brackets |-> <<InvalidLoc, InvalidLoc>>,
   Base |-> NoNode, Index |-> NoNode,
   SubExpr |-> NoNode, Fn |-> NoNode, Arg |-> NoNode, LHS |-> NoNode,
   RHS |-> NoNode, NumElements |-> 0, Elements |-> <<>>]

\* Expr::operator new: bump allocation; the new node's id is the new length.
Allocate(st, node) == [st EXCEPT !.nodes = Append(st.nodes, node)]
NewId(st) == Len(st.nodes) + 1

\* ArrayRef<ValueDecl*>: what a reference to storage reads now.
Deref(st, ref) == IF ref = CallerBuf THEN st.caller ELSE st.arrays[ref]

\* ASTContext::AllocateCopy: a copy of the list in arena memory.
AllocateCopy(st, ref) == [st EXCEPT !.arrays = Append(st.arrays, Deref(st, ref))]
CopyRef(st) == Len(st.arrays) + 1

\* The outcome of a call: the arena after it, the node returned (NoNode if
\* none), whether an assertion stopped it, and whether Decls[0] was read.
Returned(st, id) == [st |-> st, result |-> id, asserted |-> FALSE, readDecl |-> TRUE]
AssertFailed(st, read) == [st |-> st, result |-> NoNode, asserted |-> TRUE, readDecl |-> read]


\* ------------------------------------------------------ node constructors
\* DeclRefExpr(D, Loc, Ty)
DeclRefExpr(D, Loc, Ty) ==
  [BlankNode EXCEPT !.kind = "DeclRef", !.D = D, !.Loc = Loc, !.Ty = Ty]

\* OverloadedDeclRefExpr(Decls, Loc, Ty)
OverloadedDeclRefExpr(Decls, Loc, Ty) ==
  [BlankNode EXCEPT !.kind = "OverloadedDeclRef", !.Decls = Decls, !.Loc = Loc, !.Ty = Ty]

\* MemberRefExpr::MemberRefExpr: the type is the variable's reference type.
MemberRefExpr(Base, DotLoc, Value, NameLoc) ==
  [BlankNode EXCEPT !.kind = "MemberRef", !.Ty = getTypeOfReference(Value),
                    !.Base = Base, !.D = Value, !.DotLoc = DotLoc, !.Loc = NameLoc]

\* OverloadedMemberRefExpr(Base, DotLoc, Decls, MemberLoc, Ty)
OverloadedMemberRefExpr(Base, DotLoc, Decls, MemberLoc, Ty) ==
  [BlankNode EXCEPT !.kind = "OverloadedMemberRef", !.Base = Base, !.DotLoc = DotLoc,
                    !.Decls = Decls, !.Loc = MemberLoc, !.Ty = Ty]

\* DotSyntaxCallExpr(FnExpr, DotLoc, BaseExpr): an ApplyExpr whose callee is
\* FnExpr and whose argument is BaseExpr; typed as the member it calls.
DotSyntaxCallExpr(st, FnExpr, DotLoc, BaseExpr) ==
  [BlankNode EXCEPT !.kind = "DotSyntaxCall", !.Fn = FnExpr, !.Arg = BaseExpr,
                    !.DotLoc = DotLoc, !.Ty = st.nodes[FnExpr].Ty]

\* DotSyntaxBaseIgnoredExpr(LHS, DotLoc, RHS): the value is the right side's.
DotSyntaxBaseIgnoredExpr(st, LHS, DotLoc, RHS) ==
  [BlankNode EXCEPT !.kind = "DotSyntaxBaseIgnored", !.LHS = LHS, !.RHS = RHS,
                    !.DotLoc = DotLoc, !.Ty = st.nodes[RHS].Ty]

\* SubscriptExpr::SubscriptExpr: the type is the declaration's element type
\* when a declaration is given, and null when it is not.
SubscriptExpr(Base, LBracketLoc, Index, RBracketLoc, D) ==
  [BlankNode EXCEPT !.kind = "Subscript",
                    !.Ty = IF D # NoDecl THEN getElementType(D) ELSE NullType,
                    !.D = D, !.Brackets = <<LBracketLoc, RBracketLoc>>,
                    !.Base = Base, !.Index = Index]

\* OverloadedSubscriptExpr(Base, Decls, LBracketLoc, Index, RBracketLoc, Ty)
OverloadedSubscriptExpr(Base, Decls, LBracketLoc, Index, RBracketLoc, Ty) ==
  [BlankNode EXCEPT !.kind = "OverloadedSubscript", !.Base = Base, !.Decls = Decls,
                    !.Brackets = <<LBracketLoc, RBracketLoc>>, !.Index = Index, !.Ty = Ty]

\* ------------------------------------------- overload-collapse constructors
\* OverloadedDeclRefExpr::createWithCopy with the empty-list assertion
\* compiled out of the source: the empty list falls through to the overload
\* set.
Mut_createWithCopy_NoAssert(st, Decls, Loc) ==
  IF Len(Deref(st, Decls)) = 1
  THEN Returned(Allocate(st, DeclRefExpr(Deref(st, Decls)[1], Loc,
                                         getTypeOfReference(Deref(st, Decls)[1]))),
                NewId(st))
  ELSE Returned(Allocate(AllocateCopy(st, Decls),
                         OverloadedDeclRefExpr(CopyRef(st), Loc,
                                               UnstructuredDependentType)),
                NewId(st))

\* OverloadedDeclRefExpr::createWithCopy
OverloadedDeclRefExpr_createWithCopy(st, Decls, Loc) ==
  IF Len(Deref(st, Decls)) = 0 THEN AssertFailed(st, FALSE)
  ELSE LET D0 == Deref(st, Decls)[1] IN
       IF Len(Deref(st, Decls)) = 1
       THEN Returned(Allocate(st, DeclRefExpr(D0, Loc, getTypeOfReference(D0))), NewId(st))
       ELSE Returned(Allocate(AllocateCopy(st, Decls),
                              OverloadedDeclRefExpr(CopyRef(st), Loc,
                                                    UnstructuredDependentType)),
                     NewId(st))

\* The single-candidate path with the two tests joined by "or".
Mut_createSingle_OrTest(st, Base, DotLoc, D0, MemberLoc) ==
  LET st1 == Allocate(st, DeclRefExpr(D0, MemberLoc, getTypeOfReference(D0)))
      Fn == NewId(st)
  IN IF isInstanceMember(D0) \/ ~isMetaTypeType(st.nodes[Base].Ty)
     THEN IF isaFuncDecl(D0)
          THEN Returned(Allocate(st1, DotSyntaxCallExpr(st1, Fn, DotLoc, Base)), NewId(st1))
          ELSE IF ~isaVarDecl(D0)
          THEN AssertFailed(st1, TRUE)
          ELSE Returned(Allocate(st1, MemberRefExpr(Base, DotLoc, D0, MemberLoc)),
                        NewId(st1))
     ELSE Returned(Allocate(st1, DotSyntaxBaseIgnoredExpr(st1, Base, DotLoc, Fn)),
                   NewId(st1))

\* The single-candidate path with the ignored base also applied: the right
\* side of the base-ignored node is a call of the reference on the base.
Mut_createSingle_BaseTwice(st, Base, DotLoc, D0, MemberLoc) ==
  LET st1 == Allocate(st, DeclRefExpr(D0, MemberLoc, getTypeOfReference(D0)))
      Fn == NewId(st)
      st2 == Allocate(st1, DotSyntaxCallExpr(st1, Fn, DotLoc, Base))
  IN IF isInstanceMember(D0) /\ ~isMetaTypeType(st.nodes[Base].Ty)
     THEN IF isaFuncDecl(D0)
          THEN Returned(st2, NewId(st1))
          ELSE IF ~isaVarDecl(D0)
          THEN AssertFailed(st1, TRUE)
          ELSE Returned(Allocate(st1, MemberRefExpr(Base, DotLoc, D0, MemberLoc)),
                        NewId(st1))
     ELSE Returned(Allocate(st2, DotSyntaxBaseIgnoredExpr(st2, Base, DotLoc, NewId(st1))),
                   NewId(st2))

\* OverloadedMemberRefExpr::createWithCopy, Decls.size() == 1: the resolved
\* reference Fn is built first, then the node that is returned.
OverloadedMemberRefExpr_createSingle(st, Base, DotLoc, D0, MemberLoc) ==
  LET st1 == Allocate(st, DeclRefExpr(D0, MemberLoc, getTypeOfReference(D0)))
      Fn == NewId(st)
  IN IF isInstanceMember(D0) /\ ~isMetaTypeType(st.nodes[Base].Ty)
     THEN IF isaFuncDecl(D0)
          THEN Returned(Allocate(st1, DotSyntaxCallExpr(st1, Fn, DotLoc, Base)), NewId(st1))
          ELSE IF ~isaVarDecl(D0)
          THEN AssertFailed(st1, TRUE)      \* cast<VarDecl>
          ELSE Returned(Allocate(st1, MemberRefExpr(Base, DotLoc, D0, MemberLoc)),
                        NewId(st1))
     ELSE Returned(Allocate(st1, DotSyntaxBaseIgnoredExpr(st1, Base, DotLoc, Fn)),
                   NewId(st1))

\* The overload set built on the caller's own list, with no copy.
Mut_createOverloadSet_NoCopy(st, Base, DotLoc, Decls, MemberLoc) ==
  Returned(Allocate(st, OverloadedMemberRefExpr(Base, DotLoc, Decls, MemberLoc,
                                                UnstructuredDependentType)),
           NewId(st))

\* OverloadedMemberRefExpr::createWithCopy, more than one candidate: the list
\* is copied into the arena and the overload set holds the copy.
OverloadedMemberRefExpr_createOverloadSet(st, Base, DotLoc, Decls, MemberLoc) ==
  Returned(Allocate(AllocateCopy(st, Decls),
                    OverloadedMemberRefExpr(Base, DotLoc, CopyRef(st), MemberLoc,
                                            UnstructuredDependentType)),
           NewId(st))

\* OverloadedMemberRefExpr::createWithCopy
OverloadedMemberRefExpr_createWithCopy(st, Base, DotLoc, Decls, MemberLoc) ==
  IF Len(Deref(st, Decls)) = 0 THEN AssertFailed(st, FALSE)
  ELSE IF Len(Deref(st, Decls)) = 1
  THEN OverloadedMemberRefExpr_createSingle(st, Base, DotLoc, Deref(st, Decls)[1], MemberLoc)
  ELSE OverloadedMemberRefExpr_createOverloadSet(st, Base, DotLoc, Decls, MemberLoc)

\* OverloadedSubscriptExpr::createWithCopy.  The single-candidate path calls
\* SubscriptExpr with four arguments: the declaration parameter is left to
\* its default, which cannot name the candidate.
OverloadedSubscriptExpr_createWithCopy(st, Base, Decls, LBracketLoc, Index, RBracketLoc) ==
  IF Len(Deref(st, Decls)) = 0 THEN AssertFailed(st, FALSE)
  ELSE LET D0 == Deref(st, Decls)[1] IN
       IF Len(Deref(st, Decls)) = 1
       THEN Returned(Allocate(st, SubscriptExpr(Base, LBracketLoc, Index, RBracketLoc,
                                                NoDecl)),
                     NewId(st))
       ELSE Returned(Allocate(AllocateCopy(st, Decls),
                              OverloadedSubscriptExpr(Base, CopyRef(st), LBracketLoc, Index,
                                                      RBracketLoc,
                                                      UnstructuredDependentType)),
                     NewId(st))

\* OverloadSetRefExpr::createFilteredWithCopy, on the overload set `this`.
OverloadSetRefExpr_createFilteredWithCopy(st, this, Decls) ==
  IF st.nodes[this].kind = "OverloadedDeclRef"
  THEN OverloadedDeclRefExpr_createWithCopy(st, Decls, st.nodes[this].Loc)
  ELSE IF st.nodes[this].kind = "OverloadedMemberRef"
  THEN OverloadedMemberRefExpr_createWithCopy(st, st.nodes[this].Base,
                                              st.nodes[this].DotLoc, Decls,
                                              st.nodes[this].Loc)
  ELSE AssertFailed(st, FALSE)                        \* llvm_unreachable


\* ------------------------------------------------------ state and callers
\* The arena as the operations see it while the caller's list holds `list`.
During(list) == [nodes |-> nodes, arrays |-> arrays, caller |-> list]
Now == During(callerDecls)

\* The candidate list a node holds, read now through its ArrayRef.
getDecls(n) == Deref(Now, nodes[n].Decls)

\* The expression children a node holds.
Children(node) ==
  ({node.Base, node.Index, node.SubExpr, node.Fn, node.Arg, node.LHS, node.RHS}
     \cup (IF node.kind = "Sequence" THEN Range(node.Elements) ELSE {})
     \cup (IF node.kind = "NewArray" THEN {b.Value : b \in Range(node.Elements)} ELSE {}))
  \ {NoNode}
Parents(c) == {p \in 1..Len(nodes) : c \in Children(nodes[p])}
\* A caller hands a constructor only expressions no node holds yet.
Unowned == {n \in 1..Len(nodes) : Parents(n) = {}}

NoCall ==
  [op |-> "none", Decls |-> <<>>, Base |-> NoNode, Index |-> NoNode, Loc |-> InvalidLoc,
   this |-> NoNode, Elems |-> <<>>, result |-> NoNode, asserted |-> FALSE,
   readDecl |-> FALSE, allocated |-> 0]
NoQuery == [op |-> "none", E |-> NoNode, result |-> NoNode, value |-> NoNode]

\* What a call leaves behind: the arena, the caller's list (still holding the
\* argument), and the record of the call.
Commit(call, out) ==
  /\ nodes' = out.st.nodes
  /\ arrays' = out.st.arrays
  /\ callerDecls' = out.st.caller
  /\ calls' = Append(calls, [call EXCEPT !.result = out.result,
                                         !.asserted = out.asserted,
                                         !.readDecl = out.readDecl,
                                         !.allocated = Len(out.st.nodes) - Len(nodes)])
  /\ aborted' = out.asserted
  /\ UNCHANGED query

Leaves ==
  << DeclRefExpr(GlobalVarDecl, ValidLoc, getTypeOfReference(GlobalVarDecl)),
     DeclRefExpr(TypeAliasDecl, ValidLoc, getTypeOfReference(TypeAliasDecl)) >>

Init ==
  /\ nodes = Leaves
  /\ arrays = <<>>
  /\ callerDecls = <<>>
  /\ calls = <<>>
  /\ query = NoQuery
  /\ aborted = FALSE

MayCall == ~aborted /\ Len(calls) < MaxCalls

CallDeclRef ==
  /\ MayCall
  /\ \E Decls \in ListsUpTo(ValueCandidates, MaxDecls), Loc \in Locs :
       Commit([NoCall EXCEPT !.op = "OverloadedDeclRefExpr::createWithCopy",
                             !.Decls = Decls, !.Loc = Loc],
              OverloadedDeclRefExpr_createWithCopy(During(Decls), CallerBuf, Loc))

CallMemberRef ==
  /\ MayCall
  /\ \E Decls \in ListsUpTo(ValueCandidates, MaxDecls), Base \in Unowned, MemberLoc \in Locs :
       Commit([NoCall EXCEPT !.op = "OverloadedMemberRefExpr::createWithCopy",
                             !.Decls = Decls, !.Base = Base, !.Loc = MemberLoc],
              OverloadedMemberRefExpr_createWithCopy(During(Decls), Base, ValidLoc,
                                                     CallerBuf, MemberLoc))

CallSubscript ==
  /\ MayCall
  /\ \E Decls \in ListsUpTo(SubscriptCandidates, MaxDecls), Base \in Unowned,
        Index \in Unowned :
       /\ Base # Index
       /\ Commit([NoCall EXCEPT !.op = "OverloadedSubscriptExpr::createWithCopy",
                                !.Decls = Decls, !.Base = Base, !.Index = Index],
                 OverloadedSubscriptExpr_createWithCopy(During(Decls), Base, CallerBuf,
                                                        ValidLoc, Index, ValidLoc))

CallFiltered ==
  /\ MayCall
  /\ \E this \in 1..Len(nodes), Decls \in ListsUpTo(ValueCandidates, MaxDecls) :
       /\ nodes[this].kind \in {"OverloadedDeclRef", "OverloadedMemberRef"}
       /\ Commit([NoCall EXCEPT !.op = "OverloadSetRefExpr::createFilteredWithCopy",
                                !.Decls = Decls, !.this = this],
                 OverloadSetRefExpr_createFilteredWithCopy(During(Decls), this, CallerBuf))

NextCollapse == CallDeclRef \/ CallMemberRef \/ CallSubscript \/ CallFiltered

SpecCollapse == Init /\ [][NextCollapse]_vars


\* ------------------------------------------------------ structural queries
\* The ImplicitConversionExpr family (two of its kinds stand for the family)
\* and the ApplyExpr family.
ImplicitConversionKinds == {"Load", "Materialize"}
ApplyKinds == {"Call", "Unary", "Binary", "ConstructorCall", "DotSyntaxCall"}

\* ParenExpr(SubExpr): the parenthesized expression, with its type.
ParenExpr(ns, SubExpr) ==
  [BlankNode EXCEPT !.kind = "Paren", !.SubExpr = SubExpr, !.Ty = ns[SubExpr].Ty,
                    !.Brackets = <<ValidLoc, ValidLoc>>]

\* An ImplicitConversionExpr of the given kind around SubExpr.
ImplicitConversionExpr(kind, SubExpr, Ty) ==
  [BlankNode EXCEPT !.kind = kind, !.SubExpr = SubExpr, !.Ty = Ty]

\* CallExpr(Fn, Arg): an ApplyExpr, untyped until it is checked.
CallExpr(Fn, Arg) ==
  [BlankNode EXCEPT !.kind = "Call", !.Fn = Fn, !.Arg = Arg]

\* getSemanticsProvidingExpr that takes off one pair of parentheses only.
RECURSIVE Mut_getSemanticsProvidingExpr_OneLevel(_, _)
Mut_getSemanticsProvidingExpr_OneLevel(ns, this) ==
  IF ns[this].kind = "Paren" THEN ns[this].SubExpr ELSE this

\* Expr::getSemanticsProvidingExpr
RECURSIVE getSemanticsProvidingExpr(_, _)
getSemanticsProvidingExpr(ns, this) ==
  IF ns[this].kind = "Paren"
  THEN getSemanticsProvidingExpr(ns, ns[this].SubExpr)
  ELSE this

\* Expr::getValueProvidingExpr
getValueProvidingExpr(ns, this) == getSemanticsProvidingExpr(ns, this)

\* isImplicit that calls every implicit conversion implicit.
RECURSIVE Mut_isImplicit_AnyConversion(_, _)
Mut_isImplicit_AnyConversion(ns, this) ==
  IF ns[this].kind = "DeclRef" THEN ~isValid(ns[this].Loc)
  ELSE ns[this].kind \in ImplicitConversionKinds

\* Expr::isImplicit
RECURSIVE isImplicit(_, _)
isImplicit(ns, this) ==
  IF ns[this].kind = "DeclRef" THEN ~isValid(ns[this].Loc)
  ELSE IF ns[this].kind \in ImplicitConversionKinds
  THEN isImplicit(ns, ns[this].SubExpr)
  ELSE FALSE

\* getCalledValue that does not look through the callee's parentheses.
RECURSIVE Mut_getCalledValue_NoUnwrap(_, _)
Mut_getCalledValue_NoUnwrap(ns, E) ==
  IF ns[E].kind = "DeclRef" THEN ns[E].D ELSE NoDecl

\* static getCalledValue(Expr *E)
RECURSIVE getCalledValue(_, _)
getCalledValue(ns, E) ==
  IF ns[E].kind = "DeclRef" THEN ns[E].D
  ELSE LET E2 == getValueProvidingExpr(ns, E)
       IN IF E # E2 THEN getCalledValue(ns, E2) ELSE NoDecl

\* ApplyExpr::getCalledValue
ApplyExpr_getCalledValue(ns, this) == getCalledValue(ns, ns[this].Fn)

\* The arena the queries start from: a written reference, an overloaded name
\* reference of two candidates, and a synthesized reference (invalid location).
QueryLeaves ==
  LET st0 == [nodes |-> <<Leaves[1]>>, arrays |-> <<>>, caller |-> <<1, 3>>]
      st1 == OverloadedDeclRefExpr_createWithCopy(st0, CallerBuf, ValidLoc).st
  IN Allocate(st1, DeclRefExpr(1, InvalidLoc, getTypeOfReference(1)))

InitQuery ==
  /\ nodes = QueryLeaves.nodes
  /\ arrays = QueryLeaves.arrays
  /\ callerDecls = QueryLeaves.caller
  /\ calls = <<>>
  /\ query = NoQuery
  /\ aborted = FALSE

\* Construction comes first; the queries read a finished tree.
MayBuild == query.op = "none" /\ Len(nodes) < Len(QueryLeaves.nodes) + MaxBuilt

NewParen ==
  /\ MayBuild
  /\ \E SubExpr \in Unowned : nodes' = Append(nodes, ParenExpr(nodes, SubExpr))
  /\ UNCHANGED <<arrays, callerDecls, calls, query, aborted>>

NewImplicitConversion ==
  /\ MayBuild
  /\ \E kind \in ImplicitConversionKinds, SubExpr \in Unowned :
       nodes' = Append(nodes, ImplicitConversionExpr(kind, SubExpr, nodes[SubExpr].Ty))
  /\ UNCHANGED <<arrays, callerDecls, calls, query, aborted>>

NewCall ==
  /\ MayBuild
  /\ \E Fn \in Unowned, Arg \in Unowned :
       /\ Fn # Arg
       /\ nodes' = Append(nodes, CallExpr(Fn, Arg))
  /\ UNCHANGED <<arrays, callerDecls, calls, query, aborted>>

QueryStrip ==
  /\ query.op = "none"
  /\ \E E \in 1..Len(nodes) :
       query' = [op |-> "getSemanticsProvidingExpr", E |-> E,
                 result |-> getSemanticsProvidingExpr(nodes, E),
                 value |-> getValueProvidingExpr(nodes, E)]
  /\ UNCHANGED <<nodes, arrays, callerDecls, calls, aborted>>

QueryImplicit ==
  /\ query.op = "none"
  /\ \E E \in 1..Len(nodes) :
       query' = [op |-> "isImplicit", E |-> E, result |-> isImplicit(nodes, E),
                 value |-> NoNode]
  /\ UNCHANGED <<nodes, arrays, callerDecls, calls, aborted>>

QueryCalledValue ==
  /\ query.op = "none"
  /\ \E E \in 1..Len(nodes) :
       /\ nodes[E].kind \in ApplyKinds
       /\ query' = [op |-> "getCalledValue", E |-> E,
                    result |-> ApplyExpr_getCalledValue(nodes, E), value |-> NoNode]
  /\ UNCHANGED <<nodes, arrays, callerDecls, calls, aborted>>

NextQuery ==
  NewParen \/ NewImplicitConversion \/ NewCall
    \/ QueryStrip \/ QueryImplicit \/ QueryCalledValue

SpecQuery == InitQuery /\ [][NextQuery]_vars

\* --------------------------------------------------- variable-arity nodes
\* ASTContext::Allocate of a header followed by n trailing slots: the slots
\* hold whatever the memory held.
TrailingStorage(n) == [i \in 1..n |-> Uninit]

\* memcpy of `count` elements from src to the start of dst.
Memcpy(dst, src, count) ==
  [i \in 1..Len(dst) |-> IF i <= count THEN src[i] ELSE dst[i]]

\* Element i (from 0) of a variable-arity node, read from its trailing array.
getElement(node, i) == node.Elements[i + 1]

\* SequenceExpr(elements): the count and the elements, in order.
SequenceExprCtor(storage, elements) ==
  [BlankNode EXCEPT !.kind = "Sequence", !.NumElements = Len(elements),
                    !.Elements = Memcpy(storage, elements, Len(elements))]

\* SequenceExpr::create
SequenceExpr_create(st, elements) ==
  Returned(Allocate(st, SequenceExprCtor(TrailingStorage(Len(elements)), elements)),
           NewId(st))

\* NewArrayExpr(newLoc, elementTy, NumBounds, Ty): the bounds are not set.
NewArrayExprCtor(storage, newLoc, elementTy, NumBounds, Ty) ==
  [BlankNode EXCEPT !.kind = "NewArray", !.Loc = newLoc, !.NumElements = NumBounds,
                    !.Ty = Ty, !.Elements = storage]

\* NewArrayExpr::create
NewArrayExpr_create(st, newLoc, elementTy, bounds) ==
  LET E == NewArrayExprCtor(TrailingStorage(Len(bounds)), newLoc, elementTy,
                            Len(bounds), NullType)
  IN Returned(Allocate(st, [E EXCEPT !.Elements = Memcpy(E.Elements, bounds, Len(bounds))]),
              NewId(st))

\* FuncExpr(funcLoc, nParams, fnType, body, parent): the patterns are not set.
FuncExprCtor(storage, funcLoc, nParams, fnType) ==
  [BlankNode EXCEPT !.kind = "Func", !.Loc = funcLoc, !.NumElements = nParams,
                    !.Ty = fnType, !.Elements = storage]

\* The copy loop of FuncExpr::create, from index i on.
RECURSIVE CopyParams(_, _, _, _)
CopyParams(buf, params, i, nParams) ==
  IF i = nParams THEN buf
  ELSE CopyParams([buf EXCEPT ![i + 1] = params[i + 1]], params, i + 1, nParams)

\* FuncExpr::create with the copy loop started at 1.
Mut_FuncExpr_create_SkipFirst(st, funcLoc, params, fnType) ==
  LET nParams == Len(params)
      fn == FuncExprCtor(TrailingStorage(nParams), funcLoc, nParams, fnType)
  IN Returned(Allocate(st, [fn EXCEPT !.Elements =
                              IF nParams = 0 THEN fn.Elements
                              ELSE CopyParams(fn.Elements, params, 1, nParams)]),
              NewId(st))

\* FuncExpr::create
FuncExpr_create(st, funcLoc, params, fnType) ==
  LET nParams == Len(params)
      fn == FuncExprCtor(TrailingStorage(nParams), funcLoc, nParams, fnType)
  IN Returned(Allocate(st, [fn EXCEPT !.Elements =
                              CopyParams(fn.Elements, params, 0, nParams)]),
              NewId(st))

\* Parameter patterns, and the bounds a caller can write over the
\* expressions it has.
Patterns == {"pattern1", "pattern2"}
PatternLists == UNION {[1..n -> Patterns] : n \in 0..MaxElems}
Bound(Value) == [Value |-> Value, Brackets |-> <<ValidLoc, ValidLoc>>]
BoundLists == {[i \in 1..Len(l) |-> Bound(l[i])] : l \in ListsUpTo(Unowned, MaxElems)}

MayCreate == ~aborted /\ Len(calls) < MaxCreates

CreateSequence ==
  /\ MayCreate
  /\ \E elements \in ListsUpTo(Unowned, MaxElems) :
       Commit([NoCall EXCEPT !.op = "SequenceExpr::create", !.Elems = elements],
              SequenceExpr_create(Now, elements))

CreateNewArray ==
  /\ MayCreate
  /\ \E bounds \in BoundLists :
       Commit([NoCall EXCEPT !.op = "NewArrayExpr::create", !.Elems = bounds],
              NewArrayExpr_create(Now, ValidLoc, "ElementTy", bounds))

CreateFunc ==
  /\ MayCreate
  /\ \E params \in PatternLists :
       Commit([NoCall EXCEPT !.op = "FuncExpr::create", !.Elems = params],
              FuncExpr_create(Now, ValidLoc, params, "FunctionTy"))

NextArity == CreateSequence \/ CreateNewArray \/ CreateFunc

SpecArity == Init /\ [][NextArity]_vars

\* ------------------------------------------------------ tuple source range
\* SourceRange(Start, End), and the outcome of a range computation that an
\* assertion stopped.
SourceRange(Start, End) == [asserted |-> FALSE, Start |-> Start, End |-> End]
RangeAssertFailed == [asserted |-> TRUE, Start |-> InvalidLoc, End |-> InvalidLoc]

\* TupleExpr(LParenLoc, SubExprs, RParenLoc): the delimiters (invalid when
\* the tuple was written without parentheses) and the elements.
TupleExpr(LParenLoc, SubExprs, RParenLoc) ==
  [BlankNode EXCEPT !.kind = "Tuple", !.Brackets = <<LParenLoc, RParenLoc>>,
                    !.NumElements = Len(SubExprs), !.Elements = SubExprs]

RECURSIVE Expr_getSourceRange(_, _)
RECURSIVE TupleExpr_getSourceRange(_, _)

\* TupleExpr::getSourceRange that ends the range where element 0 ends.
Mut_TupleExpr_getSourceRange_EndOfFirst(ns, this) ==
  LET LParenLoc == ns[this].Brackets[1]
      RParenLoc == ns[this].Brackets[2]
  IN IF isValid(LParenLoc)
     THEN IF ~isValid(RParenLoc) THEN RangeAssertFailed
          ELSE SourceRange(LParenLoc, RParenLoc)
     ELSE IF ns[this].NumElements # 2 THEN RangeAssertFailed
     ELSE LET first == Expr_getSourceRange(ns, getElement(ns[this], 0))
          IN IF first.asserted THEN RangeAssertFailed
             ELSE SourceRange(first.Start, first.End)

\* TupleExpr::getSourceRange
TupleExpr_getSourceRange(ns, this) ==
  LET LParenLoc == ns[this].Brackets[1]
      RParenLoc == ns[this].Brackets[2]
  IN IF isValid(LParenLoc)
     THEN IF ~isValid(RParenLoc) THEN RangeAssertFailed      \* "Mismatched parens?"
          ELSE SourceRange(LParenLoc, RParenLoc)
     ELSE IF ns[this].NumElements # 2 THEN RangeAssertFailed \* "Unexpected tuple expr"
     ELSE LET first == Expr_getSourceRange(ns, getElement(ns[this], 0))
              second == Expr_getSourceRange(ns, getElement(ns[this], 1))
          IN IF first.asserted \/ second.asserted THEN RangeAssertFailed
             ELSE SourceRange(first.Start, second.End)

\* Expr::getSourceRange: dispatch on the kind.  A reference spans its one
\* location, a parenthesization its two parentheses.
Expr_getSourceRange(ns, this) ==
  IF ns[this].kind = "Tuple" THEN TupleExpr_getSourceRange(ns, this)
  ELSE IF ns[this].kind = "Paren"
  THEN SourceRange(ns[this].Brackets[1], ns[this].Brackets[2])
  ELSE SourceRange(ns[this].Loc, ns[this].Loc)

\* The written operands the tuples are built over: x, (f) and y, at source
\* positions that tell every start and end apart.
TupleLeaves ==
  LET x == DeclRefExpr(GlobalVarDecl, 1, getTypeOfReference(GlobalVarDecl))
      f == DeclRefExpr(1, 3, getTypeOfReference(1))
      pf == [ParenExpr(<<x, f>>, 2) EXCEPT !.Brackets = <<2, 4>>]
      y == DeclRefExpr(GlobalVarDecl, 5, getTypeOfReference(GlobalVarDecl))
  IN <<x, f, pf, y>>
\* Where a tuple's parentheses stand when it has them.
LParenLocs == {InvalidLoc, 6}
RParenLocs == {InvalidLoc, 7}

InitTuple ==
  /\ nodes = TupleLeaves
  /\ arrays = <<>>
  /\ callerDecls = <<>>
  /\ calls = <<>>
  /\ query = NoQuery
  /\ aborted = FALSE

NewTuple ==
  /\ query.op = "none"
  /\ Len(nodes) < Len(TupleLeaves) + MaxTuples
  /\ \E SubExprs \in ListsUpTo(Unowned, MaxTupleElems),
        LParenLoc \in LParenLocs, RParenLoc \in RParenLocs :
       nodes' = Append(nodes, TupleExpr(LParenLoc, SubExprs, RParenLoc))
  /\ UNCHANGED <<arrays, callerDecls, calls, query, aborted>>

QuerySourceRange ==
  /\ query.op = "none"
  /\ \E E \in 1..Len(nodes) :
       /\ nodes[E].kind = "Tuple"
       /\ query' = [op |-> "TupleExpr::getSourceRange", E |-> E,
                    result |-> TupleExpr_getSourceRange(nodes, E), value |-> NoNode]
       /\ aborted' = TupleExpr_getSourceRange(nodes, E).asserted
  /\ UNCHANGED <<nodes, arrays, callerDecls, calls>>

NextTuple == NewTuple \/ QuerySourceRange

SpecTuple == InitTuple /\ [][NextTuple]_vars

\* ================================================================ claims
CollapseOps ==
  {"OverloadedDeclRefExpr::createWithCopy", "OverloadedMemberRefExpr::createWithCopy",
   "OverloadedSubscriptExpr::createWithCopy"}
OverloadSetKinds == {"OverloadedDeclRef", "OverloadedMemberRef", "OverloadedSubscript"}
OverloadSetKindOf(op) ==
  CASE op = "OverloadedDeclRefExpr::createWithCopy" -> "OverloadedDeclRef"
    [] op = "OverloadedMemberRefExpr::createWithCopy" -> "OverloadedMemberRef"
    [] op = "OverloadedSubscriptExpr::createWithCopy" -> "OverloadedSubscript"
    [] OTHER -> "none"
CallIds == 1..Len(calls)
SingleCandidateCalls(op) == {i \in CallIds : calls[i].op = op /\ Len(calls[i].Decls) = 1}

\* C1: every single-candidate call of the three collapse constructors
\* returns a node that is not an overload set and whose type is the
\* candidate's reference type.
C1_SingleCandidateTyped ==
  \A i \in CallIds :
    (calls[i].op \in CollapseOps /\ Len(calls[i].Decls) = 1)
      => /\ calls[i].result # NoNode
         /\ nodes[calls[i].result].kind \notin OverloadSetKinds
         /\ nodes[calls[i].result].Ty = getTypeOfReference(calls[i].Decls[1])

\* C2: every call of the three collapse constructors with two or more
\* candidates returns the overload set of the matching kind; the list it
\* holds is the input list, element by element, whatever the caller's own
\* list holds by now; and its type is the unstructured-dependent placeholder.
C2_OverloadSetHoldsCopy ==
  \A i \in CallIds :
    (calls[i].op \in CollapseOps /\ Len(calls[i].Decls) >= 2)
      => /\ calls[i].result # NoNode
         /\ nodes[calls[i].result].kind = OverloadSetKindOf(calls[i].op)
         /\ Len(getDecls(calls[i].result)) = Len(calls[i].Decls)
         /\ \A k \in 1..Len(calls[i].Decls) :
              getDecls(calls[i].result)[k] = calls[i].Decls[k]
         /\ nodes[calls[i].result].Ty = UnstructuredDependentType
         /\ nodes[calls[i].result].Ty \notin {getTypeOfReference(d) : d \in DeclIds}

\* An overload set of each kind is in the arena, and the caller's list has
\* been refilled since the first of them was built.
C2_Witness ==
  /\ \E i \in CallIds :
       /\ calls[i].op \in CollapseOps
       /\ Len(calls[i].Decls) >= 2
       /\ nodes[calls[i].result].kind \in OverloadSetKinds
       /\ callerDecls # calls[i].Decls
       /\ nodes[calls[i].result].Decls # CallerBuf

\* C3: a single-candidate member collapse returns the base-ignored node
\* (left the receiver, right a resolved reference to the candidate) when the
\* receiver's type is a metatype or the candidate is no instance member;
\* otherwise the dot-syntax call (callee the resolved reference, argument the
\* receiver) when the candidate is a function; otherwise the member access
\* binding receiver and declaration.
IsRefTo(n, d) == n # NoNode /\ nodes[n].kind = "DeclRef" /\ nodes[n].D = d
C3_MemberShape ==
  \A i \in SingleCandidateCalls("OverloadedMemberRefExpr::createWithCopy") :
    LET c == calls[i]
        d == c.Decls[1]
        r == nodes[c.result]
    IN /\ c.result # NoNode
       /\ IF isMetaTypeType(nodes[c.Base].Ty) \/ ~isInstanceMember(d)
          THEN r.kind = "DotSyntaxBaseIgnored" /\ r.LHS = c.Base /\ IsRefTo(r.RHS, d)
          ELSE IF isaFuncDecl(d)
          THEN r.kind = "DotSyntaxCall" /\ IsRefTo(r.Fn, d) /\ r.Arg = c.Base
          ELSE r.kind = "MemberRef" /\ r.Base = c.Base /\ r.D = d

\* A metatype receiver with an instance method as candidate gave the
\* base-ignored node, and a value receiver with an instance member gave a
\* dot-syntax call or a member access.
C3_Witness ==
  /\ \E i \in SingleCandidateCalls("OverloadedMemberRefExpr::createWithCopy") :
       /\ isMetaTypeType(nodes[calls[i].Base].Ty)
       /\ isInstanceMember(calls[i].Decls[1])
       /\ nodes[calls[i].result].kind = "DotSyntaxBaseIgnored"
  /\ \E i \in SingleCandidateCalls("OverloadedMemberRefExpr::createWithCopy") :
       /\ ~isMetaTypeType(nodes[calls[i].Base].Ty)
       /\ nodes[calls[i].result].kind \in {"DotSyntaxCall", "MemberRef"}

\* C4: a single-candidate subscript collapse returns the direct subscript
\* node carrying the receiver, the index and, as its declaration, the
\* candidate.
C4_SubscriptBindsDecl ==
  \A i \in SingleCandidateCalls("OverloadedSubscriptExpr::createWithCopy") :
    LET c == calls[i]
        r == nodes[c.result]
    IN /\ c.result # NoNode
       /\ r.kind = "Subscript"
       /\ r.Base = c.Base
       /\ r.Index = c.Index
       /\ r.D = c.Decls[1]

\* C5: a collapse call with an empty candidate list stops on the assertion:
\* it returns no node, allocates no node (so no overload set with fewer than
\* two candidates exists), and has read no candidate; nothing runs after it.
C5_EmptyListAsserts ==
  \A i \in CallIds :
    (calls[i].op \in CollapseOps /\ Len(calls[i].Decls) = 0)
      => /\ calls[i].asserted
         /\ calls[i].result = NoNode
         /\ ~calls[i].readDecl
         /\ aborted
         /\ i = Len(calls)
         /\ calls[i].allocated = 0
         /\ \A n \in 1..Len(nodes) : nodes[n].kind \in OverloadSetKinds
                                       => Len(getDecls(n)) >= 2

\* Each of the three constructors can be the one that was called with the
\* empty list; here it was one called after another call had built nodes.
C5_Witness ==
  /\ Len(calls) >= 2
  /\ calls[Len(calls)].op \in CollapseOps
  /\ Len(calls[Len(calls)].Decls) = 0
  /\ aborted

HoldsAsReceiver(p, c) ==
  \/ nodes[p].kind \in {"OverloadedMemberRef", "MemberRef"} /\ nodes[p].Base = c
  \/ nodes[p].kind = "DotSyntaxCall" /\ nodes[p].Arg = c
  \/ nodes[p].kind = "DotSyntaxBaseIgnored" /\ nodes[p].LHS = c
FilteredFrom(p) ==
  {calls[i].this : i \in {j \in CallIds :
       calls[j].op = "OverloadSetRefExpr::createFilteredWithCopy" /\ calls[j].result = p}}
RECURSIVE IsParenChain(_, _, _)
IsParenChain(E, N, X) ==
  IF N = 0 THEN E = X /\ nodes[X].kind # "Paren"
  ELSE nodes[E].kind = "Paren" /\ IsParenChain(nodes[E].SubExpr, N - 1, X)

\* C6: getSemanticsProvidingExpr of a chain of N >= 0 parenthesizations
\* around a node X that is no parenthesization returns X: never null, never
\* a parenthesization; getValueProvidingExpr returns the same node.
C6_StripsAllParens ==
  query.op = "getSemanticsProvidingExpr"
    => /\ query.result # NoNode
       /\ nodes[query.result].kind # "Paren"
       /\ \E N \in 0..Len(nodes) : IsParenChain(query.E, N, query.result)
       /\ query.value = query.result

\* The query was put to two nested parenthesizations.
C6_Witness ==
  /\ query.op = "getSemanticsProvidingExpr"
  /\ IsParenChain(query.E, 2, query.result)

\* A chain of exactly N implicit conversions from E down to X.
RECURSIVE IsConversionChain(_, _, _)
IsConversionChain(E, N, X) ==
  IF N = 0 THEN E = X
  ELSE nodes[E].kind \in ImplicitConversionKinds
         /\ IsConversionChain(nodes[E].SubExpr, N - 1, X)

\* C7: isImplicit is true exactly for a resolved reference with an invalid
\* location and for a chain of implicit conversions around such a reference;
\* it is false for every other node, a parenthesization of an implicit node
\* and a reference with a valid location among them.
C7_ImplicitOnlyRefOrConversion ==
  query.op = "isImplicit"
    => /\ query.result \in BOOLEAN
       /\ query.result <=>
            \E X \in 1..Len(nodes), N \in 0..Len(nodes) :
              /\ nodes[X].kind = "DeclRef"
              /\ ~isValid(nodes[X].Loc)
              /\ IsConversionChain(query.E, N, X)
       /\ nodes[query.E].kind \notin (ImplicitConversionKinds \cup {"DeclRef"})
            => query.result = FALSE
       /\ (nodes[query.E].kind = "DeclRef" /\ isValid(nodes[query.E].Loc))
            => query.result = FALSE

\* isImplicit answered true for a conversion of a conversion of a reference
\* with an invalid location: the answer came from the wrapped child two
\* levels down.
C7_Witness ==
  /\ query.op = "isImplicit"
  /\ query.result = TRUE
  /\ \E X \in 1..Len(nodes) :
       /\ nodes[X].kind = "DeclRef"
       /\ ~isValid(nodes[X].Loc)
       /\ IsConversionChain(query.E, 2, X)

\* C8: getCalledValue of an apply node is the declaration of the resolved
\* reference the callee's parenthesizations end in, and none when they end in
\* anything else (an overload set, a conversion around a reference).
C8_CalledValueThroughParens ==
  query.op = "getCalledValue"
    => \E X \in 1..Len(nodes), N \in 0..Len(nodes) :
         /\ IsParenChain(nodes[query.E].Fn, N, X)
         /\ query.result = IF nodes[X].kind = "DeclRef" THEN nodes[X].D ELSE NoDecl

\* The callee was a reference inside two parenthesizations, and its
\* declaration was returned.
C8_Witness ==
  /\ query.op = "getCalledValue"
  /\ query.result # NoDecl
  /\ \E X \in 1..Len(nodes) : IsParenChain(nodes[query.E].Fn, 2, X)


ArityOps == {"SequenceExpr::create", "NewArrayExpr::create", "FuncExpr::create"}

\* C9: a node built by SequenceExpr::create, NewArrayExpr::create or
\* FuncExpr::create stores as its count the length of the input list (0
\* included) and gives back input element i as its element i, and this stays
\* so whatever is built afterwards.
C9_CountAndElementsRoundTrip ==
  \A i \in CallIds :
    calls[i].op \in ArityOps
      => LET node == nodes[calls[i].result]
             input == calls[i].Elems
         IN /\ calls[i].result # NoNode
            /\ node.NumElements = Len(input)
            /\ Len(node.Elements) = node.NumElements
            /\ \A k \in 0..(node.NumElements - 1) : getElement(node, k) = input[k + 1]

\* A function expression of two or more parameter patterns was built, and a
\* variable-arity node of no elements as well.
C9_Witness ==
  /\ \E i \in CallIds : calls[i].op = "FuncExpr::create" /\ Len(calls[i].Elems) >= 2
                         /\ i < Len(calls)
  /\ \E i \in CallIds : calls[i].op \in ArityOps /\ Len(calls[i].Elems) = 0


\* The tuple the source range was asked of, and the ranges of its first and
\* last element.
QueriedTuple == nodes[query.E]
HasParens(t) == isValid(t.Brackets[1])
FirstElementRange(t) == Expr_getSourceRange(nodes, getElement(t, 0))
LastElementRange(t) == Expr_getSourceRange(nodes, getElement(t, t.NumElements - 1))

\* C11 as stated: with a valid left delimiter the range is the two
\* delimiters, and an invalid right delimiter there is an assertion failure;
\* without delimiters the range runs from the start of the first element to
\* the end of the last, whatever the number of elements.
C11_RangeForAnyCount ==
  query.op = "TupleExpr::getSourceRange"
    => IF HasParens(QueriedTuple)
       THEN IF isValid(QueriedTuple.Brackets[2])
            THEN query.result = SourceRange(QueriedTuple.Brackets[1],
                                           QueriedTuple.Brackets[2])
            ELSE query.result.asserted
       ELSE QueriedTuple.NumElements >= 1
              => \/ FirstElementRange(QueriedTuple).asserted
                 \/ LastElementRange(QueriedTuple).asserted
                 \/ query.result = SourceRange(FirstElementRange(QueriedTuple).Start,
                                               LastElementRange(QueriedTuple).End)

\* C11 as amended: the delimiter half as stated; without delimiters the
\* tuple must have exactly two elements, the range then runs from the start
\* of element 0 to the end of element 1 (an element whose own range fails an
\* assertion fails this one too), and any other element count is an
\* assertion failure.
C11_RangeOfPairOnly ==
  query.op = "TupleExpr::getSourceRange"
    => IF HasParens(QueriedTuple)
       THEN IF isValid(QueriedTuple.Brackets[2])
            THEN query.result = SourceRange(QueriedTuple.Brackets[1],
                                           QueriedTuple.Brackets[2])
            ELSE query.result.asserted
       ELSE IF QueriedTuple.NumElements = 2
            THEN IF FirstElementRange(QueriedTuple).asserted
                      \/ LastElementRange(QueriedTuple).asserted
                 THEN query.result.asserted
                 ELSE query.result = SourceRange(FirstElementRange(QueriedTuple).Start,
                                                 LastElementRange(QueriedTuple).End)
            ELSE query.result.asserted /\ aborted

\* The range was asked of an undelimited pair whose first element is a
\* parenthesization (its start and end differ), and was returned.
C11_Witness ==
  /\ query.op = "TupleExpr::getSourceRange"
  /\ ~HasParens(QueriedTuple)
  /\ QueriedTuple.NumElements = 2
  /\ nodes[getElement(QueriedTuple, 0)].kind = "Paren"
  /\ ~query.result.asserted
  /\ query.result.Start # query.result.End

====
